---- MODULE Spec2Model ----
(***************************************************************************)
(* Archlyze: the folder-import pipeline of FolderImportModal.tsx, the AI    *)
(* calls of utils/gemini.ts, the settings modal and the part of App.tsx    *)
(* that drives them.  Strings are TLA+ strings; a character is a string of *)
(* length one.  Each component has its own specification: Spec (folder     *)
(* import), SpecGemini (the AI calls as functions of their arguments),     *)
(* SpecSettings (the settings modal) and SpecApp (the App state).          *)
(***************************************************************************)
EXTENDS Integers, Sequences, FiniteSets, Bags, TLC

(* ------------------------------ bounds -------------------------------- *)

\* Largest number of FileReader loads in flight at once.
MaxReaders == 1

(* --------------------------- JavaScript strings ----------------------- *)

NULL == "<null>"

Ch(s, i) == SubSeq(s, i, i)

\* The characters of the tokens in the order of their code units.
CodeUnitOrder ==
  "-./0123456789ABCDEFGHIJKLMNOPQRSTUVWXYZ_abcdefghijklmnopqrstuvwxyz"

CodeUnitRank(c) ==
  CHOOSE i \in 1..Len(CodeUnitOrder) : Ch(CodeUnitOrder, i) = c

\* a < b as JavaScript compares strings.
RECURSIVE StringLess(_, _)
StringLess(a, b) ==
  IF Len(b) = 0 THEN FALSE
  ELSE IF Len(a) = 0 THEN TRUE
  ELSE IF Head(a) = Head(b) THEN StringLess(Tail(a), Tail(b))
  ELSE CodeUnitRank(Head(a)) < CodeUnitRank(Head(b))

Includes(s, c) == \E i \in 1..Len(s) : Ch(s, i) = c

StartsWith(s, c) == Len(s) >= 1 /\ Ch(s, 1) = c

EndsWith(s, c) == Len(s) >= 1 /\ Ch(s, Len(s)) = c

\* String.prototype.split with a one-character separator: the text is cut
\* at one of the separators (one near the middle, so that long texts do not
\* nest deeply; the result is the same whichever is taken) and the two
\* parts are split in turn.
RECURSIVE Split(_, _)
Split(s, sep) ==
  LET at == {i \in 1..Len(s) : Ch(s, i) = sep}
  IN  IF at = {} THEN <<s>>
      ELSE LET i == IF \E k \in at : 2 * k >= Len(s)
                    THEN CHOOSE k \in at : 2 * k >= Len(s)
                    ELSE CHOOSE k \in at : \A j \in at : j <= k
           IN  Split(SubSeq(s, 1, i - 1), sep)
                 \o Split(SubSeq(s, i + 1, Len(s)), sep)

\* Array.prototype.join.
RECURSIVE Join(_, _)
Join(parts, sep) ==
  IF Len(parts) = 0 THEN ""
  ELSE IF Len(parts) = 1 THEN parts[1]
  ELSE LET half == Len(parts) \div 2
       IN  Join(SubSeq(parts, 1, half), sep) \o sep
             \o Join(SubSeq(parts, half + 1, Len(parts)), sep)

\* Array.prototype.pop: the last element.
Pop(parts) == parts[Len(parts)]

\* The lower-case form of the upper-case letters.
LowerOf ==
  [ A |-> "a", B |-> "b", C |-> "c", D |-> "d", E |-> "e", F |-> "f", G |-> "g",
    H |-> "h", I |-> "i", J |-> "j", K |-> "k", L |-> "l", M |-> "m", N |-> "n",
    O |-> "o", P |-> "p", Q |-> "q", R |-> "r", S |-> "s", T |-> "t", U |-> "u",
    V |-> "v", W |-> "w", X |-> "x", Y |-> "y", Z |-> "z" ]

UpperLetters == DOMAIN LowerOf

RECURSIVE ToLowerCase(_)
ToLowerCase(s) ==
  IF Len(s) = 0 THEN ""
  ELSE (IF Head(s) \in UpperLetters THEN LowerOf[Head(s)] ELSE Head(s))
         \o ToLowerCase(Tail(s))

(* ------------------- the ignore package (npm ignore 5.3.1) ------------ *)
(* Supported glob tokens: literal characters, '*' (a run of characters     *)
(* other than '/') and '?' (one character other than '/').                 *)

IsBlank(line) == \A i \in 1..Len(line) : Ch(line, i) \in {" ", "\t", "\r"}

\* checkPattern: blank lines and comment lines are no rules.
IsRuleLine(line) == ~IsBlank(line) /\ ~StartsWith(line, "#")

\* The pattern without its leading and trailing '/'.
PatternBody(pattern) ==
  LET a == IF StartsWith(pattern, "/") THEN Tail(pattern) ELSE pattern
  IN  IF EndsWith(a, "/") THEN SubSeq(a, 1, Len(a) - 1) ELSE a

\* A '/' anywhere but at the end anchors the pattern to the root.
IsAnchored(pattern) ==
  \E i \in 1..(Len(pattern) - 1) : Ch(pattern, i) = "/"

\* makeRegex: what the regular expression of a pattern matches.  It is
\* case-insensitive (body is lower case); a trailing '/' makes it match
\* directories only.
MakeRegex(pattern) ==
  [ body     |-> ToLowerCase(PatternBody(pattern)),
    anchored |-> IsAnchored(pattern),
    dirOnly  |-> EndsWith(pattern, "/") ]

\* createRule: a leading '!' makes the rule negative.
CreateRule(line) ==
  LET negative == StartsWith(line, "!")
      pattern  == IF negative THEN Tail(line) ELSE line
  IN  [origin |-> line, negative |-> negative, regex |-> MakeRegex(pattern)]

RECURSIVE RulesOfLines(_)
RulesOfLines(lines) ==
  IF Len(lines) = 0 THEN <<>>
  ELSE (IF IsRuleLine(lines[1]) THEN <<CreateRule(lines[1])>> ELSE <<>>)
         \o RulesOfLines(Tail(lines))

\* ig.add(text): one rule per rule line, in the order of the lines.
AddText(rules, text) == rules \o RulesOfLines(Split(text, "\n"))

\* ig.add(array): one rule per element, in the order of the array.
AddList(rules, patterns) == rules \o RulesOfLines(patterns)

\* The glob p matches the whole of s; '*' and '?' never match a '/'.
RECURSIVE GlobMatch(_, _)
GlobMatch(p, s) ==
  IF Len(p) = 0 THEN Len(s) = 0
  ELSE IF Head(p) = "*"
       THEN \/ GlobMatch(Tail(p), s)
            \/ Len(s) > 0 /\ Head(s) # "/" /\ GlobMatch(p, Tail(s))
       ELSE IF Len(s) = 0 THEN FALSE
       ELSE IF Head(p) = "?"
            THEN Head(s) # "/" /\ GlobMatch(Tail(p), Tail(s))
            ELSE Head(p) = Head(s) /\ GlobMatch(Tail(p), Tail(s))

\* rule.regex.test(path) for the lower-case path given as its segments;
\* isDir says whether the path ends in '/'.
RuleMatches(rule, segs, isDir) ==
  /\ rule.regex.dirOnly => isDir
  /\ IF rule.regex.anchored
     THEN GlobMatch(rule.regex.body, Join(segs, "/"))
     ELSE GlobMatch(rule.regex.body, Pop(segs))

\* The indexes of the rules that match the path.
MatchingRules(rules, segs, isDir) ==
  {i \in 1..Len(rules) : RuleMatches(rules[i], segs, isDir)}

\* _testOne: the last matching rule decides; no match means not ignored.
TestOne(rules, segs, isDir) ==
  LET m == MatchingRules(rules, segs, isDir)
  IN  m # {} /\ ~rules[CHOOSE i \in m : \A j \in m : j <= i].negative

\* ig.ignores(path): a path under an ignored directory is ignored;
\* otherwise the rules are tested on the path itself.
Ignores(rules, path) ==
  LET segs == Split(ToLowerCase(path), "/")
  IN  \/ \E k \in 1..(Len(segs) - 1) : TestOne(rules, SubSeq(segs, 1, k), TRUE)
      \/ TestOne(rules, segs, FALSE)

(* ------------------------- the browser's File objects ----------------- *)

\* A File of a folder upload: name is the last segment of
\* webkitRelativePath, text is what a FileReader reads from it.
File(path, text) ==
  [name |-> Pop(Split(path, "/")), webkitRelativePath |-> path, text |-> text]

\* Folders a user may pick: their files, and the texts their .gitignore
\* may hold (NULL: the folder has none).
Folders ==
  { [ files |-> << File("proj/keep.log", ""), File("proj/debug.log", "") >>,
      git   |-> {NULL, "!keep.log"} ],
    [ files |-> << File("proj/node_modules/pkg/index.js", ""),
                   File("proj/src/index.js", "") >>,
      git   |-> {NULL} ],
    [ files |-> << File("proj/build/output.txt", ""),
                   File("proj/src/build/output.txt", "") >>,
      git   |-> {"build/", "/build/"} ],
    [ files |-> << File("proj/out/o.txt", ""), File("proj/src/out/o.txt", "") >>,
      git   |-> {"out/", "/out/"} ],
    [ files |-> << File("proj/Main.RS", ""), File("proj/lib.rs", "") >>,
      git   |-> {NULL} ],
    [ files |-> << File("proj/app.min.js", ""), File("proj/lib/app.min.js", ""),
                   File("proj/app.js", "") >>,
      git   |-> {"# bundles\n\n*.min.js"} ] }

\* The files of a source folder of which a user may pick any part.
SourceFiles ==
  << File("proj/a.rs", ""), File("proj/b.py", ""),
     File("proj/c.bin", ""), File("proj/README", "") >>

\* The files of a list at the positions of keep, in list order.
Pick(list, keep) ==
  SelectSeq(list, LAMBDA f : \E i \in keep : list[i] = f)

\* The .gitignore of a folder, first in its listing.
GitIgnoreOf(text) ==
  IF text = NULL THEN <<>> ELSE <<File("proj/.gitignore", text)>>

\* The FileLists an <input webkitdirectory> may deliver: the listing of a
\* folder, its .gitignore first, or some of the source files.
FileLists ==
  UNION { {GitIgnoreOf(text) \o folder.files : text \in folder.git} :
          folder \in Folders }
    \cup {Pick(SourceFiles, keep) : keep \in SUBSET (1..Len(SourceFiles)) \ {{}}}

(* --------------------------- FolderImportModal ------------------------ *)

\* Mutant: the defaults without node_modules.
DefaultPatterns_NoNodeModules ==
  << ".git", "target", "dist", "build", "coverage",
     ".DS_Store", "*.log", "*.lock", "package-lock.json", "yarn.lock" >>

DefaultPatterns ==
  << ".git", "node_modules", "target", "dist", "build", "coverage",
     ".DS_Store", "*.log", "*.lock", "package-lock.json", "yarn.lock" >>

\* A string is truthy unless it is null or empty.
Truthy(content) == content # NULL /\ content # ""

\* useMemo 2: the defaults first, then the .gitignore content if any.
DefaultRules == AddList(<<>>, DefaultPatterns)

\* Mutant: the .gitignore content first, then the defaults.
IgnoreFilterOf_ContentFirst(content) ==
  IF Truthy(content)
  THEN AddList(AddText(<<>>, content), DefaultPatterns)
  ELSE DefaultRules

\* Mutant: the .gitignore content is added as one pattern.
IgnoreFilterOf_OnePattern(content) ==
  IF Truthy(content) THEN AddList(DefaultRules, <<content>>) ELSE DefaultRules

\* Mutant: the .gitignore content is never added.
IgnoreFilterOf_DefaultsOnly(content) == DefaultRules

IgnoreFilterOf(content) ==
  IF Truthy(content) THEN AddText(DefaultRules, content) ELSE DefaultRules

\* The path below the top folder.
RelativePath(file) ==
  LET pathParts == Split(file.webkitRelativePath, "/")
  IN  Join(Tail(pathParts), "/")

\* Mutant: the filter keeps the ignored candidates.
AllowedFilesOf_KeepIgnored(files, respect, ig) ==
  IF ~respect THEN files
  ELSE SelectSeq(files, LAMBDA file :
         /\ RelativePath(file) # ""
         /\ Ignores(ig, RelativePath(file)))

\* Mutant: the filter is applied whatever the toggle says.
AllowedFilesOf_AlwaysFilter(files, respect, ig) ==
  SelectSeq(files, LAMBDA file :
    /\ RelativePath(file) # ""
    /\ ~Ignores(ig, RelativePath(file)))

\* Mutant: the relative path is cut one segment too deep.
AllowedFilesOf_SliceTwo(files, respect, ig) ==
  IF ~respect THEN files
  ELSE SelectSeq(files, LAMBDA file :
         LET pathParts    == Split(file.webkitRelativePath, "/")
             relativePath == Join(Tail(Tail(pathParts)), "/")
         IN  relativePath # "" /\ ~Ignores(ig, relativePath))

\* useMemo 3: the candidates that pass the ignore filter.
AllowedFilesOf(files, respect, ig) ==
  IF ~respect THEN files
  ELSE SelectSeq(files, LAMBDA file :
         /\ RelativePath(file) # ""
         /\ ~Ignores(ig, RelativePath(file)))

\* The extension token the tally gives a file name.
TallyExt(name) ==
  IF Includes(name, ".") THEN "." \o Pop(Split(name, ".")) ELSE "no-ext"

\* counts[ext] = (counts[ext] || 0) + 1, keys kept in insertion order.
CountExt(counts, ext) ==
  IF \E i \in 1..Len(counts) : counts[i].ext = ext
  THEN [i \in 1..Len(counts) |->
          IF counts[i].ext = ext
          THEN [ext |-> ext, count |-> counts[i].count + 1]
          ELSE counts[i]]
  ELSE Append(counts, [ext |-> ext, count |-> 1])

\* useMemo 4: the tally of extension tokens over the allowed files.
RECURSIVE CountAll(_, _)
CountAll(counts, allowed) ==
  IF Len(allowed) = 0 THEN counts
  ELSE CountAll(CountExt(counts, TallyExt(allowed[1].name)), Tail(allowed))

AvailableExtensionsOf(allowed) == CountAll(<<>>, allowed)

\* Object.keys(availableExtensions).
Keys(tally) == {tally[i].ext : i \in 1..Len(tally)}

\* Array.prototype.sort by descending count: an entry goes before the first
\* entry of a smaller count, so entries of equal count keep their order.
InsertByCount(sorted, entry) ==
  LET before == {i \in 1..Len(sorted) : sorted[i].count >= entry.count}
  IN  SubSeq(sorted, 1, Cardinality(before)) \o <<entry>>
        \o SubSeq(sorted, Cardinality(before) + 1, Len(sorted))

RECURSIVE SortByCount(_, _)
SortByCount(sorted, entries) ==
  IF Len(entries) = 0 THEN sorted
  ELSE SortByCount(InsertByCount(sorted, Head(entries)), Tail(entries))

\* The extension chips in display order: Object.entries(availableExtensions),
\* which is in insertion order, sorted by descending count.
ChipsOf(tally) == SortByCount(<<>>, tally)

commonCodeExts ==
  { ".rs", ".js", ".ts", ".jsx", ".tsx", ".py", ".go", ".java", ".c", ".cpp",
    ".h", ".css", ".html", ".vue", ".svelte", ".json", ".toml", ".md" }

\* Mutant: every extension present is selected.
NewSelection_AllKeys(tally) == Keys(tally)

\* useEffect 5: the selection it sets.
NewSelection(tally) ==
  {ext \in Keys(tally) : ext \in commonCodeExts \/ ext = ".toml" \/ ext = ".json"}

\* Mutant: the import filter lower-cases the extension.
ImportExt_LowerCased(name) ==
  IF Includes(name, ".")
  THEN "." \o ToLowerCase(Pop(Split(name, ".")))
  ELSE "no-ext"

\* The extension token the import filter gives a file name.
ImportExt(name) ==
  IF Includes(name, ".") THEN "." \o Pop(Split(name, ".")) ELSE "no-ext"

\* useMemo 6: the allowed files whose token is selected.
FinalFilesOf(allowed, selection) ==
  SelectSeq(allowed, LAMBDA file : ImportExt(file.name) \in selection)

\* files.find(f => f.name === '.gitignore')
GitIgnoreFiles(files) == {i \in 1..Len(files) : files[i].name = ".gitignore"}

FindGitIgnore(files) ==
  files[CHOOSE i \in GitIgnoreFiles(files) : \A j \in GitIgnoreFiles(files) : i <= j]

NoCall == "<no call>"

(* ------------------------------ utils/gemini.ts ----------------------- *)

\* Array.prototype.slice(0, end): a negative end counts from the back.
Slice(arr, end) ==
  LET stop == IF end < 0
              THEN (IF Len(arr) + end < 0 THEN 0 ELSE Len(arr) + end)
              ELSE (IF end > Len(arr) THEN Len(arr) ELSE end)
  IN  SubSeq(arr, 1, stop)

\* String.prototype.substring(0, end).
Substring(s, end) == SubSeq(s, 1, IF end > Len(s) THEN Len(s) ELSE end)

ApiKeyMissing ==
  "API Key is missing. Please click the Settings icon and enter your Google Gemini API Key."

\* apiKey || getEnvApiKey(): the environment key is NULL when undefined.
KeyOf(apiKey, env) == IF apiKey # "" /\ apiKey # NULL THEN apiKey ELSE env

\* The model of a text request: settings.model || "gemini-2.5-flash".
ModelOf(settings) ==
  IF settings.model # "" THEN settings.model ELSE "gemini-2.5-flash"

\* What a call of an AI function did before its first await: it threw
\* (sent is FALSE, error the message) or it sent one generateContent request
\* with this key, model, code, truncation note and timeout.
Thrown(op, message) ==
  [ op |-> op, sent |-> FALSE, error |-> message, apiKey |-> NULL, model |-> NULL,
    code |-> "", truncated |-> FALSE, noteFrom |-> 0, noteTo |-> 0, timeoutMs |-> 0 ]

Sent(op, key, model, code, timeoutMs) ==
  [ op |-> op, sent |-> TRUE, error |-> NULL, apiKey |-> key, model |-> model,
    code |-> code, truncated |-> FALSE, noteFrom |-> 0, noteTo |-> 0,
    timeoutMs |-> timeoutMs ]

\* Mutant: the boundaries belong to the smaller class.
GetAnalysisTimeout_Inclusive(codeLength) ==
  IF codeLength <= 100 THEN 60000
  ELSE IF codeLength <= 500 THEN 120000
  ELSE 180000

GetAnalysisTimeout(codeLength) ==
  IF codeLength < 100 THEN 60000
  ELSE IF codeLength < 500 THEN 120000
  ELSE 180000

AnalyzeRustCode(code, settings, env) ==
  IF KeyOf(settings.apiKey, env) = NULL THEN Thrown("analysis", ApiKeyMissing)
  ELSE LET maxLines      == IF settings.maxLines # 0 THEN settings.maxLines ELSE 10000
           codeLines     == Split(code, "\n")
           truncated     == Len(codeLines) > maxLines
           effectiveCode == IF truncated
                            THEN Join(Slice(codeLines, maxLines), "\n")
                            ELSE code
       IN  [ Sent("analysis", KeyOf(settings.apiKey, env), ModelOf(settings),
                  effectiveCode, GetAnalysisTimeout(Len(codeLines)))
               EXCEPT !.truncated = truncated,
                      !.noteFrom  = IF truncated THEN Len(codeLines) ELSE 0,
                      !.noteTo    = IF truncated THEN maxLines ELSE 0 ]

GenerateArchitectureDiagram(code, settings, env) ==
  IF KeyOf(settings.apiKey, env) = NULL THEN Thrown("diagram", ApiKeyMissing)
  ELSE Sent("diagram", KeyOf(settings.apiKey, env), "gemini-2.5-flash-image",
            Substring(code, 1500), 45000)

GenerateFix(code, settings, env) ==
  IF KeyOf(settings.apiKey, env) = NULL THEN Thrown("fix", ApiKeyMissing)
  ELSE Sent("fix", KeyOf(settings.apiKey, env), ModelOf(settings), code, 30000)

GenerateUnitTests(code, settings, env) ==
  IF KeyOf(settings.apiKey, env) = NULL THEN Thrown("tests", ApiKeyMissing)
  ELSE Sent("tests", KeyOf(settings.apiKey, env), ModelOf(settings), code, 45000)

\* A value of the parsed response that may be missing: present says whether
\* the property is there (and not null), items is the array.
Missing == [present |-> FALSE, items |-> <<>>]

Array(items) == [present |-> TRUE, items |-> items]

\* A component of the parsed response: an object with an id (NULL when it
\* has none), or null in the place of an object.
Component(id) == [isObject |-> TRUE, id |-> id]

NullComponent == [isObject |-> FALSE, id |-> NULL]

\* The parsed text of a response: kind is "empty" for no text, "invalid"
\* for a text JSON.parse rejects, "json" for a parsed object.
Response(kind, components, overallIssues, dependencies) ==
  [ kind |-> kind, components |-> components, overallIssues |-> overallIssues,
    dependencies |-> dependencies ]

\* What analyzeRustCode returns or throws after the response.
Failed(message) ==
  [ok |-> FALSE, error |-> message, components |-> <<>>, overallIssues |-> <<>>,
   dependencies |-> <<>>]

NoResult == Failed(NULL)

EmptyResponse ==
  "Received empty response from AI. The model may not support structured output with this configuration."

ParseFailed ==
  "Failed to parse AI response. The model returned invalid JSON. Check browser console (F12) for details."

\* value || []
OrEmpty(value) == IF value.present THEN value.items ELSE <<>>

\* Mutant: the ids count from one.
AssignIds_FromOne(components) ==
  [i \in 1..Len(components) |->
     IF components[i].id = NULL \/ components[i].id = ""
     THEN [components[i] EXCEPT !.id = "comp-" \o ToString(i)]
     ELSE components[i]]

\* components.forEach((c, i) => { if (!c.id) c.id = `comp-${i}` }): i counts
\* from zero; an id that is missing or empty is falsy.
AssignIds(components) ==
  [i \in 1..Len(components) |->
     IF components[i].id = NULL \/ components[i].id = ""
     THEN [components[i] EXCEPT !.id = "comp-" \o ToString(i - 1)]
     ELSE components[i]]

\* The end of analyzeRustCode after a response: no text and a text that
\* does not parse throw; reading the id of null throws a TypeError inside
\* the try of the parse, which the catch turns into the parse message.
ParseResponse(response) ==
  IF response.kind = "empty" THEN Failed(EmptyResponse)
  ELSE IF response.kind = "invalid" THEN Failed(ParseFailed)
  ELSE LET components == OrEmpty(response.components)
       IN  IF \E i \in 1..Len(components) : ~components[i].isObject
           THEN Failed(ParseFailed)
           ELSE [ ok |-> TRUE, error |-> NULL,
                  components |-> AssignIds(components),
                  overallIssues |-> OrEmpty(response.overallIssues),
                  dependencies |-> OrEmpty(response.dependencies) ]

\* No AI function has been called.
NotCalled == Thrown(NULL, NULL)

\* A text of the lines a..b: each line is its number.
RECURSIVE NumberedLines(_, _)
NumberedLines(a, b) ==
  IF a = b THEN ToString(a)
  ELSE LET m == (a + b) \div 2
       IN  NumberedLines(a, m) \o "\n" \o NumberedLines(m + 1, b)

\* A text of n lines.
CodeOf(n) == NumberedLines(1, n)

\* The line counts of the codes handed to the AI functions.
LineCounts == {1, 2, 3, 4, 99, 100, 101, 499, 500, 501}

\* The maxLines values a settings object may hold: the default, the ends of
\* the slider, and values typed into the number field.
MaxLinesValues == {-3, 0, 2, 3, 500, 10000}

DEFAULT_SETTINGS ==
  [apiKey |-> "", model |-> "gemini-2.5-flash", maxLines |-> 10000]

VARIABLES
  pendingUploadFiles,   \* App: the files prop of the modal
  isImportModalOpen,    \* App: the isOpen prop of the modal
  respectGitIgnore,     \* useState
  selectedExtensions,   \* useState
  gitIgnoreContent,     \* useState
  readers,              \* the bag of texts of the FileReader loads in flight
  ignoreFilter,         \* useMemo 2
  allowedFiles,         \* useMemo 3
  availableExtensions,  \* useMemo 4
  finalFilesToImport,   \* useMemo 6
  onImportCall          \* the argument of the onImport call of this step

VARIABLES
  files,                \* App state.files: records of path, content,
                        \*   analysis and diagramUrl
  currentFile,          \* App state.currentFile
  status,               \* App state.status
  error,                \* App state.error
  activePanel,          \* App state.activePanel
  showSettings,         \* App state.showSettings
  settings,             \* App state.settings
  modalContent,         \* App state.modalContent
  requests,             \* the bag of AI calls of App handlers in flight
  envApiKey             \* process.env.API_KEY, NULL when undefined

VARIABLES
  localSettings,        \* SettingsModal useState
  useCustomModel,       \* SettingsModal useState
  customModelId         \* SettingsModal useState

VARIABLES
  code,                 \* the code argument of an AI function
  call,                 \* what the AI function called with it did
  returned              \* what analyzeRustCode made of the response

importVars ==
  << pendingUploadFiles, isImportModalOpen, respectGitIgnore, selectedExtensions,
     gitIgnoreContent, readers, ignoreFilter, allowedFiles, availableExtensions,
     finalFilesToImport, onImportCall >>

appVars ==
  << files, currentFile, status, error, activePanel, showSettings, settings,
     modalContent, requests, envApiKey >>

settingsModalVars == << localSettings, useCustomModel, customModelId >>

geminiVars == << code, call, returned >>

vars == << importVars, appVars, settingsModalVars, geminiVars >>

INITIAL_CODE ==
  "// Select an example, upload a file, or open a folder to begin\nfn main() {\n    println!(\"Hello, Archlyze!\");\n}"

\* A ProjectFile: its path, its content and the cached results.
ProjectFile(path, content) ==
  [path |-> path, content |-> content, analysis |-> NULL, diagramUrl |-> NULL]

\* The code modal, closed; its title, code and type are only displayed.
ClosedCodeModal == [isOpen |-> FALSE]

\* The App after its mount effects: the default file is in place and the
\* settings are those loaded from local storage; the settings modal opens
\* when there is neither a saved nor an environment key.
AppMounted(loaded, env) ==
  /\ files = << ProjectFile("main.rs", INITIAL_CODE) >>
  /\ currentFile = ProjectFile("main.rs", INITIAL_CODE)
  /\ status = "IDLE"
  /\ error = NULL
  /\ activePanel = "code"
  /\ settings = loaded
  /\ showSettings = (env = NULL /\ loaded.apiKey = "")
  /\ modalContent = ClosedCodeModal
  /\ requests = EmptyBag
  /\ envApiKey = env

AVAILABLE_MODELS ==
  { "gemini-2.5-flash", "gemini-2.5-pro", "gemini-2.5-flash-lite",
    "gemini-2.5-pro-preview-05-06", "gemini-3-flash-preview", "gemini-3-pro-preview" }

\* The model of the settings is none of the listed ones.
IsCustomModel(model) == model \notin AVAILABLE_MODELS /\ model # ""

\* The settings modal after the App's mount effects: its state is the
\* useState value, or that of the sync effect if the modal was opened.
SettingsModalInit ==
  /\ localSettings = IF showSettings THEN settings ELSE DEFAULT_SETTINGS
  /\ useCustomModel = (showSettings /\ IsCustomModel(settings.model))
  /\ customModelId =
       IF showSettings /\ IsCustomModel(settings.model) THEN settings.model ELSE ""

GeminiIdle ==
  /\ code = ""
  /\ call = NotCalled
  /\ returned = NoResult

\* The folder-import modal before a folder is picked.
ImportModalInit ==
  /\ pendingUploadFiles = <<>>
  /\ isImportModalOpen = FALSE
  /\ respectGitIgnore = TRUE
  /\ selectedExtensions = {}
  /\ gitIgnoreContent = NULL
  /\ readers = EmptyBag
  /\ ignoreFilter = IgnoreFilterOf(NULL)
  /\ allowedFiles = <<>>
  /\ availableExtensions = <<>>
  /\ finalFilesToImport = <<>>
  /\ onImportCall = NoCall

Init ==
  /\ ImportModalInit
  /\ AppMounted(DEFAULT_SETTINGS, "env-key")
  /\ SettingsModalInit
  /\ GeminiIdle

\* Mutant: the tally is not computed anew from the new allowed files.
Rerender_StaleTally(candidates, respect, content, reset) ==
  /\ ignoreFilter' = IgnoreFilterOf(content)
  /\ allowedFiles' = AllowedFilesOf(candidates, respect, ignoreFilter')
  /\ availableExtensions' = AvailableExtensionsOf(allowedFiles)
  /\ selectedExtensions' =
       IF reset THEN NewSelection(availableExtensions') ELSE selectedExtensions
  /\ finalFilesToImport' = FinalFilesOf(allowedFiles', selectedExtensions')

\* Mutant: a decision made for a path in the previous render is reused.
Rerender_ReusedDecisions(candidates, respect, content, reset) ==
  /\ ignoreFilter' = IgnoreFilterOf(content)
  /\ allowedFiles' =
       LET fresh == AllowedFilesOf(candidates, respect, ignoreFilter')
           was(path) == \E i \in 1..Len(allowedFiles) :
                          allowedFiles[i].webkitRelativePath = path
           is(path)  == \E i \in 1..Len(fresh) :
                          fresh[i].webkitRelativePath = path
       IN  SelectSeq(candidates, LAMBDA file :
             was(file.webkitRelativePath) \/ is(file.webkitRelativePath))
  /\ availableExtensions' = AvailableExtensionsOf(allowedFiles')
  /\ selectedExtensions' =
       IF reset THEN NewSelection(availableExtensions') ELSE selectedExtensions
  /\ finalFilesToImport' = FinalFilesOf(allowedFiles', selectedExtensions')

\* The memo cells and the selection after a render in which the files prop
\* (the candidates), the toggle or the filter changed; reset says whether
\* effect 5 sets the selection.
Rerender(candidates, respect, content, reset) ==
  /\ ignoreFilter' = IgnoreFilterOf(content)
  /\ allowedFiles' = AllowedFilesOf(candidates, respect, ignoreFilter')
  /\ availableExtensions' = AvailableExtensionsOf(allowedFiles')
  /\ selectedExtensions' =
       IF reset THEN NewSelection(availableExtensions') ELSE selectedExtensions
  /\ finalFilesToImport' = FinalFilesOf(allowedFiles', selectedExtensions')

\* App.handleFolderSelect, then the modal's effects 1 and 5.  The open
\* modal is an overlay over the folder input, so a folder is picked
\* while the modal is closed.
HandleFolderSelect(fileList) ==
  /\ ~isImportModalOpen
  /\ Len(fileList) # 0
  /\ pendingUploadFiles' = fileList
  /\ isImportModalOpen' = TRUE
  /\ IF GitIgnoreFiles(fileList) # {}
     THEN /\ BagCardinality(readers) < MaxReaders
          /\ readers' = readers (+) SetToBag({FindGitIgnore(fileList).text})
          /\ gitIgnoreContent' = gitIgnoreContent
     ELSE /\ readers' = readers
          /\ gitIgnoreContent' = NULL
  /\ Rerender(fileList, respectGitIgnore, gitIgnoreContent', TRUE)
  /\ onImportCall' = NoCall
  /\ UNCHANGED respectGitIgnore
  /\ UNCHANGED <<appVars, settingsModalVars, geminiVars>>

\* Mutant: the arrival of the content leaves the selection as it is.
ReaderOnload_KeepsSelection(text) ==
  /\ BagIn(text, readers)
  /\ readers' = readers (-) SetToBag({text})
  /\ gitIgnoreContent' = text
  /\ Rerender(pendingUploadFiles, respectGitIgnore, text, FALSE)
  /\ onImportCall' = NoCall
  /\ UNCHANGED <<pendingUploadFiles, isImportModalOpen, respectGitIgnore>>
  /\ UNCHANGED <<appVars, settingsModalVars, geminiVars>>

\* reader.onload of a load in flight: setGitIgnoreContent(text).  Effect 5
\* runs when the tally is computed anew, that is when the content differs
\* and the filter is in use.
ReaderOnload(text) ==
  /\ BagIn(text, readers)
  /\ readers' = readers (-) SetToBag({text})
  /\ gitIgnoreContent' = text
  /\ Rerender(pendingUploadFiles, respectGitIgnore, text,
              /\ text # gitIgnoreContent
              /\ respectGitIgnore
              /\ isImportModalOpen)
  /\ onImportCall' = NoCall
  /\ UNCHANGED <<pendingUploadFiles, isImportModalOpen, respectGitIgnore>>
  /\ UNCHANGED <<appVars, settingsModalVars, geminiVars>>

\* The checkbox of 'Respect .gitignore'.
SetRespectGitIgnore ==
  /\ isImportModalOpen
  /\ respectGitIgnore' = ~respectGitIgnore
  /\ Rerender(pendingUploadFiles, ~respectGitIgnore, gitIgnoreContent, TRUE)
  /\ onImportCall' = NoCall
  /\ UNCHANGED <<pendingUploadFiles, isImportModalOpen, gitIgnoreContent, readers>>
  /\ UNCHANGED <<appVars, settingsModalVars, geminiVars>>

\* Mutant: a selection change also narrows the allowed files and the tally.
SetSelectedExtensions_Upstream(next) ==
  /\ selectedExtensions' = next
  /\ allowedFiles' = FinalFilesOf(allowedFiles, next)
  /\ availableExtensions' = AvailableExtensionsOf(allowedFiles')
  /\ finalFilesToImport' = allowedFiles'
  /\ onImportCall' = NoCall
  /\ UNCHANGED << pendingUploadFiles, isImportModalOpen, respectGitIgnore,
                  gitIgnoreContent, readers, ignoreFilter >>
  /\ UNCHANGED <<appVars, settingsModalVars, geminiVars>>

\* A selection change: the selection and useMemo 6.
SetSelectedExtensions(next) ==
  /\ selectedExtensions' = next
  /\ finalFilesToImport' = FinalFilesOf(allowedFiles, next)
  /\ onImportCall' = NoCall
  /\ UNCHANGED << pendingUploadFiles, isImportModalOpen, respectGitIgnore,
                  gitIgnoreContent, readers, ignoreFilter, allowedFiles,
                  availableExtensions >>
  /\ UNCHANGED <<appVars, settingsModalVars, geminiVars>>

\* A click on the chip of ext.
HandleToggleExt(ext) ==
  /\ isImportModalOpen
  /\ ext \in Keys(availableExtensions)
  /\ SetSelectedExtensions(IF ext \in selectedExtensions
                           THEN selectedExtensions \ {ext}
                           ELSE selectedExtensions \cup {ext})

SelectAll ==
  /\ isImportModalOpen
  /\ SetSelectedExtensions(Keys(availableExtensions))

Clear ==
  /\ isImportModalOpen
  /\ SetSelectedExtensions({})

\* The X and Cancel buttons: onClose.
Close ==
  /\ isImportModalOpen
  /\ isImportModalOpen' = FALSE
  /\ onImportCall' = NoCall
  /\ UNCHANGED << pendingUploadFiles, respectGitIgnore, selectedExtensions,
                  gitIgnoreContent, readers, ignoreFilter, allowedFiles,
                  availableExtensions, finalFilesToImport >>
  /\ UNCHANGED <<appVars, settingsModalVars, geminiVars>>

\* The Import button: onImport(finalFilesToImport), then onClose.
HandleImport ==
  /\ isImportModalOpen
  /\ Len(finalFilesToImport) # 0
  /\ onImportCall' = finalFilesToImport
  /\ isImportModalOpen' = FALSE
  /\ UNCHANGED << pendingUploadFiles, respectGitIgnore, selectedExtensions,
                  gitIgnoreContent, readers, ignoreFilter, allowedFiles,
                  availableExtensions, finalFilesToImport >>
  /\ UNCHANGED <<appVars, settingsModalVars, geminiVars>>

Next ==
  \/ \E fileList \in FileLists : HandleFolderSelect(fileList)
  \/ \E text \in BagToSet(readers) : ReaderOnload(text)
  \/ SetRespectGitIgnore
  \/ \E ext \in Keys(availableExtensions) : HandleToggleExt(ext)
  \/ SelectAll
  \/ Clear
  \/ Close
  \/ HandleImport

Spec == Init /\ [][Next]_vars

(* ------------------- the AI functions of utils/gemini.ts --------------- *)

\* The settings objects handed to the AI functions.
SettingsArgs ==
  [apiKey : {"", "user-key"}, model : {"gemini-2.5-flash"}, maxLines : MaxLinesValues]

InitGemini ==
  /\ ImportModalInit
  /\ \E loaded \in SettingsArgs, env \in {NULL, "env-key"} : AppMounted(loaded, env)
  /\ SettingsModalInit
  /\ code \in {CodeOf(n) : n \in LineCounts}
  /\ call = NotCalled
  /\ returned = NoResult

CallAnalyzeRustCode ==
  /\ call = NotCalled
  /\ call' = AnalyzeRustCode(code, settings, envApiKey)
  /\ UNCHANGED <<code, returned, importVars, appVars, settingsModalVars>>

CallGenerateArchitectureDiagram ==
  /\ call = NotCalled
  /\ call' = GenerateArchitectureDiagram(code, settings, envApiKey)
  /\ UNCHANGED <<code, returned, importVars, appVars, settingsModalVars>>

CallGenerateFix ==
  /\ call = NotCalled
  /\ call' = GenerateFix(code, settings, envApiKey)
  /\ UNCHANGED <<code, returned, importVars, appVars, settingsModalVars>>

CallGenerateUnitTests ==
  /\ call = NotCalled
  /\ call' = GenerateUnitTests(code, settings, envApiKey)
  /\ UNCHANGED <<code, returned, importVars, appVars, settingsModalVars>>

\* The ids of the components the model returns: none, empty, or one.
ComponentIds == {NULL, "", "parse_args"}

\* The components arrays of the responses, of at most MaxComponents entries.
MaxComponents == 2

ComponentLists ==
  UNION { [1..n -> {Component(id) : id \in ComponentIds} \cup {NullComponent}] :
            n \in 0..MaxComponents }

\* The responses to an analysis request.
Responses ==
  { Response("empty", Missing, Missing, Missing),
    Response("invalid", Missing, Missing, Missing) }
  \cup { Response("json", components, overallIssues, dependencies) :
           components \in {Missing} \cup {Array(list) : list \in ComponentLists},
           overallIssues \in {Missing, Array(<<"issue">>)},
           dependencies \in {Missing, Array(<<"serde">>)} }

\* The request of analyzeRustCode is answered before its timeout.
AnalysisResponds(response) ==
  /\ call.op = "analysis" /\ call.sent
  /\ returned = NoResult
  /\ returned' = ParseResponse(response)
  /\ UNCHANGED <<code, call, importVars, appVars, settingsModalVars>>

NextGemini ==
  \/ CallAnalyzeRustCode
  \/ CallGenerateArchitectureDiagram
  \/ CallGenerateFix
  \/ CallGenerateUnitTests
  \/ \E response \in Responses : AnalysisResponds(response)

SpecGemini == InitGemini /\ [][NextGemini]_vars

(* ------------------------------ SettingsModal -------------------------- *)

\* The value of a decimal digit, -1 for any other character.
DigitValue(c) ==
  IF \E d \in 0..9 : ToString(d) = c THEN CHOOSE d \in 0..9 : ToString(d) = c ELSE -1

\* The number read from the digits at the start of s, after acc.
RECURSIVE ParseDigits(_, _)
ParseDigits(s, acc) ==
  IF Len(s) = 0 \/ DigitValue(Head(s)) < 0 THEN acc
  ELSE ParseDigits(Tail(s), 10 * acc + DigitValue(Head(s)))

\* The text without its sign.
Unsigned(text) ==
  IF StartsWith(text, "-") \/ StartsWith(text, "+") THEN Tail(text) ELSE text

\* parseInt(text) is NaN: no digit follows the optional sign.
ParsesToNaN(text) ==
  Len(Unsigned(text)) = 0 \/ DigitValue(Head(Unsigned(text))) < 0

\* parseInt(text) when it is a number.
ParseInt(text) ==
  IF StartsWith(text, "-") THEN 0 - ParseDigits(Unsigned(text), 0)
  ELSE ParseDigits(Unsigned(text), 0)

\* String.prototype.trim for blanks.
RECURSIVE Trim(_)
Trim(s) ==
  IF StartsWith(s, " ") THEN Trim(Tail(s))
  ELSE IF EndsWith(s, " ") THEN Trim(SubSeq(s, 1, Len(s) - 1))
  ELSE s

\* What the user types and picks in the settings modal.
TypedApiKeys == {"", "user-key"}

TypedModelIds == {"", " my-model "}

PickedModels == {"gemini-2.5-flash", "gemini-2.5-pro"}

TypedMaxLines == {"", "5", "-3", "0", "750", "25000"}

SliderValues == {"500", "20000"}

\* The settings local storage may hold at mount.
LoadedSettings ==
  { DEFAULT_SETTINGS, [DEFAULT_SETTINGS EXCEPT !.apiKey = "user-key"] }

\* The App state the settings modal does not touch.
appButSettings ==
  << files, currentFile, status, error, activePanel, modalContent, requests,
     envApiKey >>

InitSettings ==
  /\ ImportModalInit
  /\ \E loaded \in LoadedSettings, env \in {NULL, "env-key"} : AppMounted(loaded, env)
  /\ SettingsModalInit
  /\ GeminiIdle

\* App.updateSettings, the onSave of the modal.
UpdateSettings(newSettings) == settings' = newSettings

\* The settings button of the header, then the modal's sync effect.
OpenSettings ==
  /\ ~showSettings
  /\ showSettings' = TRUE
  /\ localSettings' = settings
  /\ useCustomModel' = IsCustomModel(settings.model)
  /\ customModelId' =
       IF IsCustomModel(settings.model) THEN settings.model ELSE customModelId
  /\ UNCHANGED <<settings, appButSettings, importVars, geminiVars>>

\* The X button of the modal: onClose.
CloseSettings ==
  /\ showSettings
  /\ showSettings' = FALSE
  /\ UNCHANGED <<settings, settingsModalVars, appButSettings, importVars, geminiVars>>

\* A change of the modal's own state.
SetLocal(next, custom, id) ==
  /\ showSettings
  /\ localSettings' = next
  /\ useCustomModel' = custom
  /\ customModelId' = id
  /\ UNCHANGED <<showSettings, settings, appButSettings, importVars, geminiVars>>

SetApiKey(text) ==
  SetLocal([localSettings EXCEPT !.apiKey = text], useCustomModel, customModelId)

HandleSelectModel(modelId) ==
  /\ ~useCustomModel
  /\ SetLocal([localSettings EXCEPT !.model = modelId], FALSE, "")

HandleToggleCustom ==
  IF useCustomModel
  THEN SetLocal([localSettings EXCEPT !.model = "gemini-2.5-flash"], FALSE, "")
  ELSE SetLocal(localSettings, TRUE, customModelId)

SetCustomModelId(text) ==
  /\ useCustomModel
  /\ SetLocal(localSettings, useCustomModel, text)

\* The slider: its values are multiples of 500 from 500 to 20000.
SlideMaxLines(value) ==
  SetLocal([localSettings EXCEPT !.maxLines = ParseInt(value)],
           useCustomModel, customModelId)

\* The number field.
TypeMaxLines(text) ==
  LET parsed == IF ParsesToNaN(text) THEN 500 ELSE ParseInt(text)
      val    == IF parsed > 20000 THEN 20000 ELSE parsed
  IN  SetLocal([localSettings EXCEPT !.maxLines = val], useCustomModel, customModelId)

\* Save Settings: onSave(finalSettings), then onClose.
HandleSave ==
  /\ showSettings
  /\ UpdateSettings(IF useCustomModel /\ Trim(customModelId) # ""
                    THEN [localSettings EXCEPT !.model = Trim(customModelId)]
                    ELSE localSettings)
  /\ showSettings' = FALSE
  /\ UNCHANGED <<settingsModalVars, appButSettings, importVars, geminiVars>>

NextSettings ==
  \/ OpenSettings
  \/ CloseSettings
  \/ \E text \in TypedApiKeys : SetApiKey(text)
  \/ \E modelId \in PickedModels : HandleSelectModel(modelId)
  \/ HandleToggleCustom
  \/ \E text \in TypedModelIds : SetCustomModelId(text)
  \/ \E value \in SliderValues : SlideMaxLines(value)
  \/ \E text \in TypedMaxLines : TypeMaxLines(text)
  \/ HandleSave

SpecSettings == InitSettings /\ [][NextSettings]_vars

(* ------------------------------- App.tsx ------------------------------ *)

\* sub occurs in s: String.prototype.includes.
IncludesText(s, sub) ==
  \E i \in 1..(Len(s) - Len(sub) + 1) : SubSeq(s, i, i + Len(sub) - 1) = sub

\* The list with the file put before the first entry whose path comes after
\* its own: one step of the stable sort by path.
InsertByPath(sorted, file) ==
  LET later == {i \in 1..Len(sorted) : StringLess(file.path, sorted[i].path)}
      at    == IF later = {} THEN Len(sorted) + 1
               ELSE CHOOSE i \in later : \A j \in later : i <= j
  IN  SubSeq(sorted, 1, at - 1) \o <<file>> \o SubSeq(sorted, at, Len(sorted))

\* newFiles.sort((a, b) => a.path.localeCompare(b.path)); the paths are
\* lower-case, for which localeCompare orders as the code units do.
RECURSIVE SortByPath(_, _)
SortByPath(sorted, list) ==
  IF list = <<>> THEN sorted
  ELSE SortByPath(InsertByPath(sorted, Head(list)), Tail(list))

\* The ProjectFiles handleImportConfirm makes of the files it has read.
NewFilesOf(filteredFiles) ==
  SortByPath(<<>>, [i \in 1..Len(filteredFiles) |->
                      ProjectFile(filteredFiles[i].webkitRelativePath,
                                  filteredFiles[i].text)])

\* Mutant: the entry of the list keeps its old value.
ReplaceByPath_KeepEntry(list, updatedFile) == list

\* s.files.map(f => f.path === updatedFile.path ? updatedFile : f)
ReplaceByPath(list, updatedFile) ==
  [i \in 1..Len(list) |->
     IF list[i].path = updatedFile.path THEN updatedFile ELSE list[i]]

\* The file lists handed to handleImportConfirm.
ImportedFiles ==
  { << File("proj/b.rs", "fn b() {}"), File("proj/a.rs", "fn a() {}\nfn c() {}") >> }

\* The texts typed into the code editor.
EditedCodes == {"fn main() {}\n// edited"}

\* The results the AI service returns: analyses and diagram URLs.
AnalysisResults == {"analysis-1"}

DiagramUrls == {"data:image/png;base64,AAAA"}

\* The greatest number of AI calls of App handlers in flight.
MaxRequests == 1

\* A call of an AI function in flight: the file and the settings the
\* handler read from the state of its render, and what the function did.
Request(op, file, args, made) ==
  [op |-> op, file |-> file, settings |-> args, call |-> made]

InFlight == BagToSet(requests)

\* The loading overlays and the open modals cover the page.
Covered ==
  \/ status \in {"ANALYZING", "FIXING", "GENERATING_TESTS"}
  \/ showSettings
  \/ modalContent.isOpen

\* The frame of the handlers of App: they touch neither the import modal
\* nor the state of the settings modal.  The settings are those of the
\* mount: SpecSettings has the steps that edit them.
AppFrame == UNCHANGED <<importVars, settingsModalVars, geminiVars, envApiKey>>

\* The mounts: no key at all, the environment key alone, and a saved key
\* beside the environment key.
InitApp ==
  /\ ImportModalInit
  /\ \E loaded \in LoadedSettings, env \in {NULL, "env-key"} :
       /\ loaded.apiKey # "" => env # NULL
       /\ AppMounted(loaded, env)
  /\ SettingsModalInit
  /\ GeminiIdle

\* The setState of handleImportConfirm after the files have been read; the
\* reads of an import confirmed earlier may end at any time.
HandleImportConfirm(filteredFiles) ==
  /\ files' = NewFilesOf(filteredFiles)
  /\ currentFile' = files'[1]
  /\ status' = "IDLE"
  /\ error' = NULL
  /\ UNCHANGED <<activePanel, showSettings, settings, modalContent, requests>>
  /\ AppFrame

\* Mutant: selecting a file drops its cached results.
HandleFileSelect_Fresh(file) ==
  /\ ~Covered
  /\ currentFile' = ProjectFile(file.path, file.content)
  /\ status' = "IDLE"
  /\ error' = NULL
  /\ activePanel' = "code"
  /\ UNCHANGED <<files, showSettings, settings, modalContent, requests>>
  /\ AppFrame

\* A click on a file of the explorer or of the history.
HandleFileSelect(file) ==
  /\ ~Covered
  /\ currentFile' = file
  /\ status' = "IDLE"
  /\ error' = NULL
  /\ activePanel' = IF file.analysis # NULL THEN "analysis" ELSE "code"
  /\ UNCHANGED <<files, showSettings, settings, modalContent, requests>>
  /\ AppFrame

\* The code editor's onCodeChange.
UpdateCurrentCode(newCode) ==
  /\ ~Covered
  /\ LET updatedFile == [currentFile EXCEPT !.content = newCode]
     IN  /\ currentFile' = updatedFile
         /\ files' = ReplaceByPath(files, updatedFile)
  /\ UNCHANGED <<status, error, activePanel, showSettings, settings, modalContent,
                 requests>>
  /\ AppFrame

\* A handler up to its await: the status, and the call now in flight.
Start(newStatus, req) ==
  /\ ~Covered
  /\ BagCardinality(requests) < MaxRequests
  /\ status' = newStatus
  /\ error' = NULL
  /\ requests' = requests (+) SetToBag({req})
  /\ UNCHANGED <<files, currentFile, activePanel, showSettings, settings, modalContent>>
  /\ AppFrame

\* The Analyze button: runAnalysis up to its await.
RunAnalysis ==
  Start("ANALYZING",
        Request("analysis", currentFile, settings,
                AnalyzeRustCode(currentFile.content, settings, envApiKey)))

\* runAnalysis after analyzeRustCode resolved with result.
AnalysisResolved(req, result) ==
  /\ req \in InFlight /\ req.op = "analysis" /\ req.call.sent
  /\ requests' = requests (-) SetToBag({req})
  /\ LET updatedFile == [req.file EXCEPT !.analysis = result]
     IN  /\ currentFile' = updatedFile
         /\ files' = ReplaceByPath(files, updatedFile)
  /\ status' = "COMPLETE"
  /\ activePanel' = "analysis"
  /\ UNCHANGED <<error, showSettings, settings, modalContent>>
  /\ AppFrame

\* The message a call is rejected with: that of its own throw, or that of
\* the timeout of its request.
Rejections(req, timedOut) ==
  IF req.call.sent THEN {timedOut} ELSE {req.call.error}

\* Mutant: the catch of runAnalysis leaves the settings modal closed.
AnalysisRejected_NoModal(req, message) ==
  /\ req \in InFlight /\ req.op = "analysis"
  /\ message \in Rejections(req, "Analysis timed out after "
                                   \o ToString(req.call.timeoutMs \div 1000)
                                   \o "s. Try a smaller file or a faster model (Flash-Lite).")
  /\ requests' = requests (-) SetToBag({req})
  /\ status' = "ERROR"
  /\ error' = message
  /\ UNCHANGED <<files, currentFile, activePanel, showSettings, settings, modalContent,
                 settingsModalVars>>
  /\ UNCHANGED <<importVars, geminiVars, envApiKey>>

\* The catch of runAnalysis; a message about the API key opens the settings
\* modal, whose sync effect then runs.
AnalysisRejected(req, message) ==
  /\ req \in InFlight /\ req.op = "analysis"
  /\ message \in Rejections(req, "Analysis timed out after "
                                   \o ToString(req.call.timeoutMs \div 1000)
                                   \o "s. Try a smaller file or a faster model (Flash-Lite).")
  /\ requests' = requests (-) SetToBag({req})
  /\ status' = "ERROR"
  /\ error' = message
  /\ IF IncludesText(message, "API Key") /\ ~showSettings
     THEN /\ showSettings' = TRUE
          /\ localSettings' = settings
          /\ useCustomModel' = IsCustomModel(settings.model)
          /\ customModelId' =
               IF IsCustomModel(settings.model) THEN settings.model ELSE customModelId
     ELSE UNCHANGED <<showSettings, settingsModalVars>>
  /\ UNCHANGED <<files, currentFile, activePanel, settings, modalContent>>
  /\ UNCHANGED <<importVars, geminiVars, envApiKey>>

\* The Generate button of the diagram panel: runDiagramGeneration up to its
\* await.  The button is disabled while a diagram is generated.
RunDiagramGeneration ==
  /\ currentFile.analysis # NULL
  /\ activePanel = "analysis"
  /\ status # "GENERATING_IMAGE"
  /\ Start("GENERATING_IMAGE",
           Request("diagram", currentFile, settings,
                   GenerateArchitectureDiagram(currentFile.content, settings, envApiKey)))

DiagramResolved(req, url) ==
  /\ req \in InFlight /\ req.op = "diagram" /\ req.call.sent
  /\ requests' = requests (-) SetToBag({req})
  /\ LET updatedFile == [req.file EXCEPT !.diagramUrl = url]
     IN  /\ currentFile' = updatedFile
         /\ files' = ReplaceByPath(files, updatedFile)
  /\ status' = "COMPLETE"
  /\ UNCHANGED <<error, activePanel, showSettings, settings, modalContent>>
  /\ AppFrame

\* Mutant: the catch of runDiagramGeneration sets the error only.
DiagramRejected_StillLoading(req, message) ==
  /\ req \in InFlight /\ req.op = "diagram"
  /\ message \in Rejections(req, "Image generation timed out.")
  /\ requests' = requests (-) SetToBag({req})
  /\ error' = message
  /\ UNCHANGED <<files, currentFile, status, activePanel, showSettings, settings,
                 modalContent>>
  /\ AppFrame

\* The catch of runDiagramGeneration.
DiagramRejected(req, message) ==
  /\ req \in InFlight /\ req.op = "diagram"
  /\ message \in Rejections(req, "Image generation timed out.")
  /\ requests' = requests (-) SetToBag({req})
  /\ status' = "ERROR"
  /\ error' = message
  /\ UNCHANGED <<files, currentFile, activePanel, showSettings, settings, modalContent>>
  /\ AppFrame

\* The fix button of an issue and the test button of a component, up to the
\* await: both are shown with the analysis of the current file.
HandleFixIssue ==
  /\ currentFile.analysis # NULL
  /\ activePanel = "analysis"
  /\ Start("FIXING",
           Request("fix", currentFile, settings,
                   GenerateFix(currentFile.content, settings, envApiKey)))

HandleGenerateTests ==
  /\ currentFile.analysis # NULL
  /\ activePanel = "analysis"
  /\ Start("GENERATING_TESTS",
           Request("tests", currentFile, settings,
                   GenerateUnitTests(currentFile.content, settings, envApiKey)))

\* generateFix or generateUnitTests resolved: the code modal opens.
CodeResolved(req) ==
  /\ req \in InFlight /\ req.op \in {"fix", "tests"} /\ req.call.sent
  /\ requests' = requests (-) SetToBag({req})
  /\ status' = "COMPLETE"
  /\ modalContent' = [isOpen |-> TRUE]
  /\ UNCHANGED <<files, currentFile, error, activePanel, showSettings, settings>>
  /\ AppFrame

CodeRejected(req, message) ==
  /\ req \in InFlight /\ req.op \in {"fix", "tests"}
  /\ message \in Rejections(req, IF req.op = "fix" THEN "Fix generation timed out."
                                 ELSE "Test generation timed out.")
  /\ requests' = requests (-) SetToBag({req})
  /\ status' = "ERROR"
  /\ error' = (IF req.op = "fix" THEN "Failed to generate fix: "
               ELSE "Failed to generate tests: ") \o message
  /\ UNCHANGED <<files, currentFile, activePanel, showSettings, settings, modalContent>>
  /\ AppFrame

\* The onClose of the code modal.
CloseCodeModal ==
  /\ modalContent.isOpen
  /\ modalContent' = [modalContent EXCEPT !.isOpen = FALSE]
  /\ UNCHANGED <<files, currentFile, status, error, activePanel, showSettings, settings,
                 requests>>
  /\ AppFrame

NextApp ==
  \/ \E filteredFiles \in ImportedFiles : HandleImportConfirm(filteredFiles)
  \/ \E i \in 1..Len(files) : HandleFileSelect(files[i])
  \/ \E newCode \in EditedCodes : UpdateCurrentCode(newCode)
  \/ RunAnalysis
  \/ \E req \in InFlight, result \in AnalysisResults : AnalysisResolved(req, result)
  \/ \E req \in InFlight, message \in {ApiKeyMissing} \cup
        {"Analysis timed out after " \o ToString(s) \o
           "s. Try a smaller file or a faster model (Flash-Lite)." : s \in {60, 120, 180}} :
        AnalysisRejected(req, message)
  \/ RunDiagramGeneration
  \/ \E req \in InFlight, url \in DiagramUrls : DiagramResolved(req, url)
  \/ \E req \in InFlight,
        message \in {ApiKeyMissing, "Image generation timed out."} :
        DiagramRejected(req, message)
  \/ HandleFixIssue
  \/ HandleGenerateTests
  \/ \E req \in InFlight : CodeResolved(req)
  \/ \E req \in InFlight,
        message \in {ApiKeyMissing, "Fix generation timed out.",
                        "Test generation timed out."} :
        CodeRejected(req, message)
  \/ CloseCodeModal
  \/ CloseSettings

SpecApp == InitApp /\ [][NextApp]_vars

\* The end of the handler of a call in flight.  A call that threw is
\* rejected at once; the request of a call that was sent races a timer
\* (withTimeout), so it is answered or rejected by its timeout.
RequestEnds ==
  \E req \in InFlight :
    \/ \E result \in AnalysisResults : AnalysisResolved(req, result)
    \/ \E message \in Rejections(req, "Analysis timed out after "
                                        \o ToString(req.call.timeoutMs \div 1000)
                                        \o "s. Try a smaller file or a faster model (Flash-Lite).") :
         AnalysisRejected(req, message)
    \/ \E url \in DiagramUrls : DiagramResolved(req, url)
    \/ \E message \in Rejections(req, "Image generation timed out.") :
         DiagramRejected(req, message)
    \/ CodeResolved(req)
    \/ \E message \in Rejections(req, IF req.op = "fix" THEN "Fix generation timed out."
                                      ELSE "Test generation timed out.") :
         CodeRejected(req, message)

\* The App with its timers: the promise of a call in flight is settled in
\* the end, at the latest by the timer of withTimeout.
SpecAppLive == SpecApp /\ WF_vars(RequestEnds)

(* ------------------------------ properties ---------------------------- *)

\* The candidate with this path is in the list.
HasFile(list, path) == \E i \in 1..Len(list) : list[i].webkitRelativePath = path

\* The k-th smallest element of a set of numbers.
KthSmallest(set, k) ==
  CHOOSE x \in set : Cardinality({y \in set : y < x}) = k - 1

\* The elements of list at the positions of keep, in their order in list.
SubList(list, keep) ==
  [k \in 1..Cardinality(keep) |-> list[KthSmallest(keep, k)]]

\* The verdict of the last rule that matches the path itself.
LastMatchVerdict(rules, path) ==
  LET segs == Split(ToLowerCase(path), "/")
      m    == {i \in 1..Len(rules) : RuleMatches(rules[i], segs, FALSE)}
  IN  IF m = {} THEN "none"
      ELSE IF rules[KthSmallest(m, Cardinality(m))].negative
           THEN "include" ELSE "exclude"

\* Some directory above the path is ignored.
AncestorIgnored(rules, path) ==
  LET segs == Split(ToLowerCase(path), "/")
  IN  \E k \in 1..(Len(segs) - 1) : TestOne(rules, SubSeq(segs, 1, k), TRUE)

\* Some rule matches the path or a directory above it.
SomeRuleMatches(rules, path) ==
  LET segs == Split(ToLowerCase(path), "/")
  IN  \/ \E i \in 1..Len(rules) : RuleMatches(rules[i], segs, FALSE)
      \/ \E i \in 1..Len(rules), k \in 1..(Len(segs) - 1) :
           RuleMatches(rules[i], SubSeq(segs, 1, k), TRUE)

\* The origins of the rules, in rule order.
Origins(rules) == [i \in 1..Len(rules) |-> rules[i].origin]

\* The positions of a rule with this origin.
RuleAt(rules, origin) == {i \in 1..Len(rules) : rules[i].origin = origin}

C2_AsStated ==
  /\ (respectGitIgnore /\ gitIgnoreContent = "build/") =>
       /\ ~HasFile(allowedFiles, "proj/build/output.txt")
       /\ ~HasFile(allowedFiles, "proj/src/build/output.txt")
  /\ (respectGitIgnore /\ gitIgnoreContent = "/build/") =>
       /\ ~HasFile(allowedFiles, "proj/build/output.txt")
       /\ HasFile(pendingUploadFiles, "proj/src/build/output.txt")
            => HasFile(allowedFiles, "proj/src/build/output.txt")

\* C2 amended: "build/" ignores build/output.txt and src/build/output.txt;
\* with "/build/" both are ignored as well, src/build/output.txt by the
\* built-in rule "build"; for a name outside the defaults the anchor shows:
\* "out/" ignores out/o.txt and src/out/o.txt, "/out/" ignores out/o.txt
\* but not src/out/o.txt.
C2_DirectoryAnchor ==
  /\ (respectGitIgnore /\ gitIgnoreContent \in {"build/", "/build/"}) =>
       /\ ~HasFile(allowedFiles, "proj/build/output.txt")
       /\ ~HasFile(allowedFiles, "proj/src/build/output.txt")
  /\ (respectGitIgnore /\ gitIgnoreContent = "out/") =>
       /\ ~HasFile(allowedFiles, "proj/out/o.txt")
       /\ ~HasFile(allowedFiles, "proj/src/out/o.txt")
  /\ (respectGitIgnore /\ gitIgnoreContent = "/out/") =>
       /\ ~HasFile(allowedFiles, "proj/out/o.txt")
       /\ HasFile(pendingUploadFiles, "proj/src/out/o.txt")
            => HasFile(allowedFiles, "proj/src/out/o.txt")

C2_Witness ==
  /\ respectGitIgnore
  /\ gitIgnoreContent = "/out/"
  /\ HasFile(pendingUploadFiles, "proj/out/o.txt")
  /\ HasFile(pendingUploadFiles, "proj/src/out/o.txt")
  /\ ~HasFile(allowedFiles, "proj/out/o.txt")
  /\ HasFile(allowedFiles, "proj/src/out/o.txt")

\* The directory names among the built-in defaults.
DefaultDirectories ==
  {".git", "node_modules", "target", "dist", "build", "coverage"}

\* C3: with no .gitignore content the built-in rules ignore every candidate
\* under a version-control, dependency or output directory
\* (node_modules/pkg/index.js), and src/index.js is not ignored.
C3_BuiltInDefaults ==
  (respectGitIgnore /\ gitIgnoreContent = NULL) =>
    /\ \A i \in 1..Len(pendingUploadFiles) :
         LET segs == Split(RelativePath(pendingUploadFiles[i]), "/")
         IN  (\E k \in 1..(Len(segs) - 1) : segs[k] \in DefaultDirectories)
               => ~HasFile(allowedFiles, pendingUploadFiles[i].webkitRelativePath)
    /\ HasFile(pendingUploadFiles, "proj/src/index.js")
         => HasFile(allowedFiles, "proj/src/index.js")

C3_Witness ==
  /\ respectGitIgnore
  /\ gitIgnoreContent = NULL
  /\ HasFile(pendingUploadFiles, "proj/node_modules/pkg/index.js")
  /\ ~HasFile(allowedFiles, "proj/node_modules/pkg/index.js")
  /\ HasFile(allowedFiles, "proj/src/index.js")

\* The positions of the candidates the current rules do not ignore.
NotIgnored ==
  {i \in 1..Len(pendingUploadFiles) :
     ~Ignores(IgnoreFilterOf(gitIgnoreContent), RelativePath(pendingUploadFiles[i]))}

\* C4: with the filter in use, the allowed files are exactly the candidates
\* that are not ignored, each once, in their original order.
C4_FilterAllowed ==
  respectGitIgnore => allowedFiles = SubList(pendingUploadFiles, NotIgnored)

C4_Witness ==
  /\ respectGitIgnore
  /\ Len(allowedFiles) >= 2
  /\ Len(allowedFiles) < Len(pendingUploadFiles)

\* files.length - allowedFiles.length
totalIgnored == Len(pendingUploadFiles) - Len(allowedFiles)

\* The number shown under 'Ignored'.
IgnoredShown == IF respectGitIgnore THEN totalIgnored ELSE 0

\* C5: for either position of the toggle, the allowed count plus the
\* ignored count of the summary is the number of candidates; with the
\* filter in use the ignored count is the number of ignored candidates.
C5_CountsAddUp ==
  /\ Len(allowedFiles) + IgnoredShown = Len(pendingUploadFiles)
  /\ respectGitIgnore =>
       IgnoredShown = Len(pendingUploadFiles) - Cardinality(NotIgnored)

C5_Witness ==
  /\ ~respectGitIgnore
  /\ isImportModalOpen
  /\ Cardinality(NotIgnored) < Len(pendingUploadFiles)
  /\ Len(allowedFiles) = Len(pendingUploadFiles)

\* The extension token as the specification words it.
LowerCasedToken(name) ==
  IF Includes(name, ".")
  THEN "." \o ToLowerCase(Pop(Split(name, ".")))
  ELSE "no-ext"

\* C6 as stated: the token of a candidate is '.' and the lower-cased text
\* after the last '.' of its name, or no-ext; the keys of the tally and the
\* import filter use this token (Main.RS and lib.rs both have .rs).
C6_LowerCasedToken ==
  /\ Keys(availableExtensions) =
       {LowerCasedToken(allowedFiles[i].name) : i \in 1..Len(allowedFiles)}
  /\ finalFilesToImport =
       SubList(allowedFiles,
               {i \in 1..Len(allowedFiles) :
                  LowerCasedToken(allowedFiles[i].name) \in selectedExtensions})

\* The allow-list as the claim gives it.
AllowList ==
  { ".rs", ".js", ".ts", ".jsx", ".tsx", ".py", ".go", ".java", ".c", ".cpp",
    ".h", ".css", ".html", ".vue", ".svelte", ".json", ".toml", ".md" }

\* The names of the files of a list.
Names(list) == [i \in 1..Len(list) |-> list[i].name]

\* A step in which effect 5 sets the selection: the modal opens, the
\* toggle changes, or new content arrives while the filter is in use.
SelectionReset ==
  \/ ~isImportModalOpen /\ isImportModalOpen'
  \/ respectGitIgnore' # respectGitIgnore
  \/ /\ isImportModalOpen /\ respectGitIgnore
     /\ gitIgnoreContent' # gitIgnoreContent

\* C7: the default selection is the intersection of the allow-list with the
\* keys of the tally; for the allowed files a.rs, b.py, c.bin, README it is
\* {.rs, .py}.
C7_DefaultSelection ==
  [][SelectionReset =>
       /\ selectedExtensions' = AllowList \cap Keys(availableExtensions')
       /\ Names(allowedFiles') = <<"a.rs", "b.py", "c.bin", "README">>
            => selectedExtensions' = {".rs", ".py"}]_vars

C7_Witness ==
  /\ isImportModalOpen
  /\ Names(allowedFiles) = <<"a.rs", "b.py", "c.bin", "README">>
  /\ Keys(availableExtensions) = {".rs", ".py", ".bin", "no-ext"}
  /\ selectedExtensions = {".rs", ".py"}

\* The allowed files whose tallied token is selected, in their order.
SelectedOfAllowed ==
  SubList(allowedFiles,
          {i \in 1..Len(allowedFiles) :
             TallyExt(allowedFiles[i].name) \in selectedExtensions})

\* C8: the list to import, and the list handed to onImport, is the allowed
\* files whose token is in the selection, in their original order; with
\* {.rs, .py} over a.rs, b.py, c.bin, README it is a.rs, b.py.
C8_ImportList ==
  /\ finalFilesToImport = SelectedOfAllowed
  /\ onImportCall # NoCall =>
       /\ onImportCall = SelectedOfAllowed
       /\ (/\ Names(allowedFiles) = <<"a.rs", "b.py", "c.bin", "README">>
           /\ selectedExtensions = {".rs", ".py"})
            => Names(onImportCall) = <<"a.rs", "b.py">>

C8_Witness ==
  /\ onImportCall # NoCall
  /\ Names(allowedFiles) = <<"a.rs", "b.py", "c.bin", "README">>
  /\ selectedExtensions = {".rs", ".py"}
  /\ Names(onImportCall) = <<"a.rs", "b.py">>

\* The sum of the counts of a tally.
RECURSIVE SumCounts(_)
SumCounts(tally) ==
  IF Len(tally) = 0 THEN 0 ELSE tally[1].count + SumCounts(Tail(tally))

\* C9: in every state the tally maps each token to the number of currently
\* allowed files with that token: every allowed file's token is a key, no
\* key is repeated or has count 0, the counts sum to the allowed count, and
\* the allowed files are those of the current files, toggle and content.
C9_TallyIsCurrent ==
  /\ allowedFiles =
       IF respectGitIgnore
       THEN SubList(pendingUploadFiles, NotIgnored)
       ELSE pendingUploadFiles
  /\ \A i \in 1..Len(availableExtensions) :
       /\ availableExtensions[i].count > 0
       /\ availableExtensions[i].count =
            Cardinality({j \in 1..Len(allowedFiles) :
                           TallyExt(allowedFiles[j].name) = availableExtensions[i].ext})
       /\ \A k \in 1..Len(availableExtensions) :
            availableExtensions[k].ext = availableExtensions[i].ext => k = i
  /\ \A j \in 1..Len(allowedFiles) :
       TallyExt(allowedFiles[j].name) \in Keys(availableExtensions)
  /\ SumCounts(availableExtensions) = Len(allowedFiles)

C9_Witness ==
  /\ isImportModalOpen
  /\ ~respectGitIgnore
  /\ Len(availableExtensions) >= 2
  /\ \E i \in 1..Len(availableExtensions) : availableExtensions[i].count >= 2

HasLine(content, line) ==
  /\ content # NULL
  /\ \E k \in 1..Len(Split(content, "\n")) : Split(content, "\n")[k] = line

\* C11: a pattern with no '/' is matched against the last segment of the path
\* at any depth, and '*' matches a run of characters without '/': with the
\* rule "*.min.js", app.min.js and lib/app.min.js are ignored and app.js is
\* not; no file is ignored by a no-slash rule matching across a '/'.
C11_BasenameGlob ==
  (respectGitIgnore /\ HasLine(gitIgnoreContent, "*.min.js")) =>
    /\ RuleAt(ignoreFilter, "*.min.js") # {}
    /\ ~HasFile(allowedFiles, "proj/app.min.js")
    /\ ~HasFile(allowedFiles, "proj/lib/app.min.js")
    /\ HasFile(pendingUploadFiles, "proj/app.js")
         => HasFile(allowedFiles, "proj/app.js")
    /\ \A i \in RuleAt(ignoreFilter, "*.min.js") :
         /\ ~ignoreFilter[i].regex.anchored
         /\ RuleMatches(ignoreFilter[i], <<"lib", "app.min.js">>, FALSE)
         /\ ~RuleMatches(ignoreFilter[i], <<"lib", "app.js">>, FALSE)
         /\ ~GlobMatch(ignoreFilter[i].regex.body, "lib/app.min.js")

C11_Witness ==
  /\ respectGitIgnore
  /\ HasLine(gitIgnoreContent, "*.min.js")
  /\ HasFile(pendingUploadFiles, "proj/app.min.js")
  /\ HasFile(pendingUploadFiles, "proj/lib/app.min.js")
  /\ ~HasFile(allowedFiles, "proj/app.min.js")
  /\ ~HasFile(allowedFiles, "proj/lib/app.min.js")
  /\ HasFile(allowedFiles, "proj/app.js")

\* The chips of the current tally.
Chips == ChipsOf(availableExtensions)

\* C12 as stated: the chips are in descending order of count, and chips of
\* equal count are in ascending order of token.
C12_CountThenToken ==
  \A i, j \in 1..Len(Chips) :
    i < j =>
      \/ Chips[i].count > Chips[j].count
      \/ /\ Chips[i].count = Chips[j].count
         /\ StringLess(Chips[i].ext, Chips[j].ext)

SelectionChange ==
  \/ \E ext \in Keys(availableExtensions) : HandleToggleExt(ext)
  \/ SelectAll
  \/ Clear

\* C14: a selection change leaves the candidates, the allowed files, the
\* ignored count and the tally as they were; the list to import is derived
\* from the unchanged allowed files and the new selection.
C14_SelectionFrame ==
  [][SelectionChange =>
       /\ pendingUploadFiles' = pendingUploadFiles
       /\ allowedFiles' = allowedFiles
       /\ IgnoredShown' = IgnoredShown
       /\ availableExtensions' = availableExtensions
       /\ finalFilesToImport' = FinalFilesOf(allowedFiles, selectedExtensions')]_vars

C14_Witness ==
  /\ isImportModalOpen
  /\ IgnoredShown > 0
  /\ Len(allowedFiles) > 0
  /\ selectedExtensions = Keys(availableExtensions)
  /\ selectedExtensions # NewSelection(availableExtensions)
  /\ finalFilesToImport = allowedFiles

\* C15 as stated: an analysis request carries at most maxLines lines of
\* code (maxLines being the setting, or 10000 when the setting is 0): of a
\* longer code its first maxLines lines, with the truncation noted in the
\* prompt, and otherwise the code unchanged.
C15_AtMostMaxLines ==
  (call.op = "analysis" /\ call.sent) =>
    LET maxLines  == IF settings.maxLines # 0 THEN settings.maxLines ELSE 10000
        codeLines == Split(code, "\n")
        sentLines == Split(call.code, "\n")
    IN  /\ Len(sentLines) <= maxLines
        /\ Len(codeLines) > maxLines =>
             /\ sentLines = SubSeq(codeLines, 1, maxLines)
             /\ call.truncated
             /\ call.noteFrom = Len(codeLines) /\ call.noteTo = maxLines
        /\ Len(codeLines) <= maxLines =>
             call.code = code /\ ~call.truncated

\* The timeout in seconds for a code of n lines.
TimeoutSeconds(n) == IF n <= 99 THEN 60 ELSE IF n <= 499 THEN 120 ELSE 180

\* C16: the timeout of an analysis request is chosen from the line count of
\* the code handed to analyzeRustCode: 60 s below 100 lines, 120 s from 100
\* to 499 lines, 180 s from 500 lines on.
C16_TimeoutByLineCount ==
  (call.op = "analysis" /\ call.sent) =>
    call.timeoutMs = 1000 * TimeoutSeconds(Len(Split(code, "\n")))

C16_Witness ==
  /\ call.op = "analysis"
  /\ call.sent
  /\ Len(Split(code, "\n")) = 100
  /\ call.timeoutMs = 120000

\* The request is in flight and this step is the end of its handler.
Ended(req) == req \in InFlight /\ requests' = requests (-) SetToBag({req})

\* The cached results of the files of the list.
Cached(list) ==
  [i \in 1..Len(list) |->
     [path |-> list[i].path, analysis |-> list[i].analysis,
      diagramUrl |-> list[i].diagramUrl]]

\* C17: selecting a file of the list makes it the current file with the
\* analysis and the diagram cached in its entry and shows the analysis if
\* there is one; the step starts no AI call and leaves the files list as it
\* was, so an analysed file selected again after another file shows its
\* cached results.
C17_CachedPerFile ==
  [][\A i \in 1..Len(files) :
       HandleFileSelect(files[i]) =>
         /\ files' = files
         /\ requests' = requests
         /\ currentFile'.path = files[i].path
         /\ currentFile'.analysis = files[i].analysis
         /\ currentFile'.diagramUrl = files[i].diagramUrl
         /\ files[i].analysis # NULL => activePanel' = "analysis"]_vars

\* An analysed file with a diagram is current again after a selection, the
\* project has another file, and no call is in flight.
C17_Witness ==
  /\ status = "IDLE"
  /\ Len(files) = 2
  /\ currentFile = files[1]
  /\ currentFile.analysis # NULL
  /\ currentFile.diagramUrl # NULL
  /\ requests = EmptyBag

\* The key of a call is the key of the settings if that is not empty, the
\* environment key otherwise; without either the call threw 'API Key is
\* missing' and sent nothing.
KeyResolved(req) ==
  LET key == IF req.settings.apiKey # "" THEN req.settings.apiKey ELSE envApiKey
  IN  IF key = NULL
      THEN ~req.call.sent /\ req.call.error = ApiKeyMissing
      ELSE req.call.sent /\ req.call.apiKey = key

\* The end of a handler whose call threw for the missing key: the status is
\* ERROR and the error is the message of the throw; runAnalysis shows the
\* message as it is and opens the settings modal.
MissingKeyEnd(req) ==
  (Ended(req) /\ ~req.call.sent) =>
    /\ status' = "ERROR"
    /\ IncludesText(error', ApiKeyMissing)
    /\ Cached(files') = Cached(files)
    /\ req.op = "analysis" => (error' = ApiKeyMissing /\ showSettings')

C19_MaxLinesInRange == settings.maxLines \in 500..20000

\* C20: when runAnalysis or runDiagramGeneration ends with a result, the
\* current file is the file the handler started with, carrying the result,
\* and every entry of files with its path is that same file; the other
\* entries are as they were.
C20_ReplacedTogether ==
  [][\A req \in InFlight :
       (Ended(req) /\ req.op \in {"analysis", "diagram"} /\ status' = "COMPLETE") =>
         /\ currentFile'.path = req.file.path
         /\ currentFile'.content = req.file.content
         /\ IF req.op = "analysis"
            THEN currentFile'.analysis \in AnalysisResults
            ELSE currentFile'.diagramUrl \in DiagramUrls
         /\ Len(files') = Len(files)
         /\ \A i \in 1..Len(files) :
              files'[i] = IF files[i].path = currentFile'.path
                          THEN currentFile' ELSE files[i]]_vars

\* A diagram request has ended with a result for an analysed file of the
\* list, and nothing is in flight.
C20_Witness ==
  /\ status = "COMPLETE"
  /\ currentFile.diagramUrl # NULL
  /\ currentFile.analysis # NULL
  /\ \E i \in 1..Len(files) : files[i] = currentFile
  /\ error = NULL
  /\ requests = EmptyBag

\* The response the result was made of.
ResultOf(response) == returned = ParseResponse(response)

\* C21: in the result of a successful analyzeRustCode every component has a
\* non-empty id; a component the model returned without an id, at index i
\* counted from zero, has comp-i, a component with an id keeps it and the
\* components keep their number and order; components, overallIssues and
\* dependencies missing in the response are empty arrays.
C21_ComponentIds ==
  returned.ok =>
    /\ \A i \in 1..Len(returned.components) :
         returned.components[i].id \notin {NULL, ""}
    /\ \A response \in Responses :
         ResultOf(response) =>
           /\ response.kind = "json"
           /\ Len(returned.components) =
                IF response.components.present
                THEN Len(response.components.items) ELSE 0
           /\ \A i \in 1..Len(returned.components) :
                LET id == response.components.items[i].id
                IN  returned.components[i].id =
                      IF id \in {NULL, ""} THEN "comp-" \o ToString(i - 1) ELSE id
           /\ ~response.overallIssues.present => returned.overallIssues = <<>>
           /\ response.overallIssues.present =>
                returned.overallIssues = response.overallIssues.items
           /\ ~response.dependencies.present => returned.dependencies = <<>>
           /\ response.dependencies.present =>
                returned.dependencies = response.dependencies.items

\* A result whose first component kept its id and whose second was given
\* comp-1, made of a response without overallIssues.
C21_Witness ==
  /\ returned.ok
  /\ Len(returned.components) = 2
  /\ returned.components[1].id = "parse_args"
  /\ returned.components[2].id = "comp-1"
  /\ returned.overallIssues = <<>>
  /\ returned.dependencies = <<"serde">>

\* The statuses shown while a handler waits for its call.
Loading == status \in {"ANALYZING", "GENERATING_IMAGE", "FIXING", "GENERATING_TESTS"}

\* The timeout of the request of a call, in milliseconds.
TimeoutOf(req) ==
  CASE req.op = "analysis" ->
         1000 * TimeoutSeconds(Len(Split(req.file.content, "\n")))
    [] req.op = "diagram"  -> 45000
    [] req.op = "fix"      -> 30000
    [] req.op = "tests"    -> 45000

\* The message of the timeout of a request.
TimeoutMessage(req) ==
  CASE req.op = "analysis" ->
         "Analysis timed out after " \o ToString(TimeoutOf(req) \div 1000)
           \o "s. Try a smaller file or a faster model (Flash-Lite)."
    [] req.op = "diagram"  -> "Image generation timed out."
    [] req.op = "fix"      -> "Fix generation timed out."
    [] req.op = "tests"    -> "Test generation timed out."

\* The end of a handler whose request got no response: the status is ERROR
\* and the error carries the message of the timeout.
TimeoutEnd(req) ==
  (Ended(req) /\ req.call.sent /\ status' # "COMPLETE") =>
    /\ status' = "ERROR"
    /\ IncludesText(error', TimeoutMessage(req))

\* C22: every request sent races a timer of 60, 120 or 180 s (analysis, by
\* the line count), 45 s (diagram), 30 s (fix) or 45 s (tests); a request
\* that gets no response ends with status ERROR and the message of its
\* timeout; a loading status is shown only while a call is in flight, and
\* every loading status ends.
C22_LoadingEnds ==
  /\ [](\A req \in InFlight : req.call.sent => req.call.timeoutMs = TimeoutOf(req))
  /\ [](Loading => requests # EmptyBag)
  /\ [][\A req \in InFlight : TimeoutEnd(req)]_vars
  /\ (Loading ~> ~Loading)

\* The analysis of a file timed out after 60 s.
C22_Witness ==
  /\ status = "ERROR"
  /\ error = "Analysis timed out after 60s. Try a smaller file or a faster model (Flash-Lite)."
  /\ requests = EmptyBag

\* C23 as stated: while the import modal is open, the .gitignore content
\* the filter is built from is null or the text of the .gitignore of the
\* current file list.
C23_ContentOfCurrentList ==
  isImportModalOpen =>
    \/ gitIgnoreContent = NULL
    \/ /\ GitIgnoreFiles(pendingUploadFiles) # {}
       /\ gitIgnoreContent = FindGitIgnore(pendingUploadFiles).text

\* C24 as stated: when runAnalysis or runDiagramGeneration ends with a
\* result, the file the user has selected stays the current file, every
\* file keeps the content it has, an analysis leaves the diagrams and a
\* diagram leaves the analyses as they are, and the files with another path
\* are untouched: only the result is added to the file of the request.
C24_NothingLost ==
  [][\A req \in InFlight :
       (Ended(req) /\ req.op \in {"analysis", "diagram"} /\ status' = "COMPLETE") =>
         /\ currentFile'.path = currentFile.path
         /\ currentFile'.content = currentFile.content
         /\ Len(files') = Len(files)
         /\ \A i \in 1..Len(files) :
              /\ files'[i].path = files[i].path
              /\ files'[i].content = files[i].content
              /\ req.op = "analysis" => files'[i].diagramUrl = files[i].diagramUrl
              /\ req.op = "diagram" => files'[i].analysis = files[i].analysis
              /\ files[i].path # req.file.path => files'[i] = files[i]]_vars

\* C25: a step that changes the allowed files of the open modal (the
\* toggle, the arrival of the .gitignore content, a new file list) sets the
\* selection to the default selection of the new tally, whatever was
\* selected by hand; the selection of the open modal is a subset of the
\* keys of the tally.
C25_SelectionReset ==
  /\ [][(isImportModalOpen' /\ allowedFiles' # allowedFiles) =>
          selectedExtensions' = AllowList \cap Keys(availableExtensions')]_vars
  /\ [](isImportModalOpen => selectedExtensions \subseteq Keys(availableExtensions))

\* The content of the .gitignore has arrived in the open modal and has
\* taken files out of the allowed files; the selection is the default one.
C25_Witness ==
  /\ isImportModalOpen
  /\ respectGitIgnore
  /\ readers = EmptyBag
  /\ gitIgnoreContent = "# bundles\n\n*.min.js"
  /\ Names(allowedFiles) = <<".gitignore", "app.js">>
  /\ Len(pendingUploadFiles) = 4
  /\ selectedExtensions = {".js"}

====
